---- MODULE Spec2Model ----
(***************************************************************************)
(* Predator-prey simulation engine (src/src/entidades.rs,                  *)
(* src/src/simulacion.rs): the prey entities Conejo and Cabra, the         *)
(* Depredador, and the day-advance orchestration Simulacion::avanzar_dia.  *)
(*                                                                         *)
(* Quantities the code holds in f64 kilograms (peso_kg, reserva_comida_kg, *)
(* the consumption thresholds, the tie tolerance) are held here as integer *)
(* grams: 1 unit = 0.001 kg.  The Gompertz closure is tabulated: each      *)
(* entry is the closure's IEEE-double value at that age, rounded up to the *)
(* next gram (rounding up keeps a positive weight positive and never       *)
(* exceeds peso_max, itself a whole number of grams).                      *)
(*                                                                         *)
(* Random draws (rng.gen_bool, rng.gen_range, rand::random, choose) are    *)
(* nondeterministic choices: every outcome of nonzero probability is a     *)
(* successor.                                                              *)
(***************************************************************************)
EXTENDS Integers, Sequences, FiniteSets, TLC

VARIABLES
  dia,          \* Simulacion.dia
  presas,       \* Simulacion.presas: sequence of prey records
  depredador,   \* Simulacion.depredador: [reserva_comida_kg, vivo]
  next_id,      \* Simulacion.next_id
  op,           \* history: the operation that produced this state
  llamadas,     \* history: operations applied since the initial state
  ociosas,      \* history: calls of avanzar_dia made with the predator dead
  emitidos,     \* history: ids handed out to prey, in order of issue
  bajas,        \* history: prey dropped by the last call's retain
  horizonte,    \* last day the run is followed to (a bound of the model)
  nacimientos,  \* history: nacimientos[k] is the day emitidos[k] was issued
  azar,         \* history: the random draws that have come out true so far
  inicio        \* history: dia and reserve of the initial state

vars == <<dia, presas, depredador, next_id, op, llamadas, ociosas, emitidos,
          bajas, horizonte, nacimientos, azar, inicio>>

---------------------------------------------------------------------------
(* Parameters: entidades.rs lines 15-40.  Weights in grams.                *)

N_CONEJOS_INICIAL == 60
N_CABRAS_INICIAL == 25

DEPREDADOR_RESERVA_INICIAL_KG == 900000
DEPREDADOR_CONSUMO_MINIMO_DIARIO_KG == 3000
DEPREDADOR_CONSUMO_OPTIMO_DIARIO_KG == 5000

CONEJO_EDAD_MAXIMA_DIAS == 1825
CONEJO_EDAD_REPRODUCTIVA_DIAS == 100
CONEJO_EDAD_SACRIFICIO_DIAS == 150
CONEJO_CRIAS_POR_PARTO == <<3, 6>>

CABRA_EDAD_MAXIMA_DIAS == 5475
CABRA_EDAD_REPRODUCTIVA_DIAS == 300
CABRA_EDAD_SACRIFICIO_DIAS == 250
CABRA_CRIAS_POR_PARTO == <<1, 2>>

\* cazar's "Tolerancia para flotantes": 0.01 kg.
TOLERANCIA_PESO == 10

CONEJO_PESO_MAX == 5000
CABRA_PESO_MAX == 75000

Sexo == {"Macho", "Hembra"}
Especie == {"Conejo", "Cabra"}

---------------------------------------------------------------------------
(* Bounds of the model.                                                    *)

\* Prey present in an initial state.
MaxCohorte == 2
\* Disease draws that come out true in one run.
MaxEnfermas == 1
\* Ids issued to newborns in one run.
MaxCrias == 3
\* Days a populated run is followed from its initial state.
MaxDias == 2
\* Days the run of the empty world is followed.
MaxDiasAyuno == 183
\* Calls of avanzar_dia followed after the predator's death.
MaxOciosas == 2
\* Prey handed to Depredador::cazar when it is exercised on its own.
MaxPresasCaza == 2
\* Operations applied when Depredador is exercised on its own.
MaxLlamadas == 2
\* Oldest age from which the growth curve is followed day by day.
MaxEdadCrecimiento == 1310
\* Calls followed when Presa::reproducirse is exercised on its own.
MaxPartos == 1

---------------------------------------------------------------------------
(* crear_funcion_gompertz(peso_max, tasa_crecimiento, punto_inflexion):    *)
(*   peso_max * exp(-exp(-tasa_crecimiento * (t - punto_inflexion)))       *)
(* Conejo: (5.0, 0.05, 90.0); Cabra: (75.0, 0.01, 180.0).                  *)
(* Entry t+1 of a table is the weight at age t; past the table the value   *)
(* rounds up to peso_max.                                                  *)

CONEJO_PESOS_G ==
  <<
    1, 1, 1, 1, 1, 1, 1, 1, 1, 1, 1, 1,
    1, 1, 1, 1, 1, 1, 1, 1, 1, 1, 1, 1,
    1, 1, 1, 1, 1, 1, 1, 1, 1, 1, 1, 1,
    1, 1, 1, 1, 1, 1, 1, 1, 1, 1, 1, 1,
    2, 3, 4, 5, 7, 9, 12, 16, 21, 28, 36, 45,
    57, 71, 87, 106, 128, 153, 181, 213, 248, 288, 330, 377,
    428, 482, 541, 602, 668, 737, 809, 884, 962, 1042, 1125, 1210,
    1297, 1385, 1475, 1565, 1656, 1748, 1840, 1932, 2024, 2115, 2205, 2295,
    2384, 2472, 2558, 2643, 2727, 2809, 2889, 2967, 3044, 3118, 3191, 3261,
    3330, 3397, 3462, 3524, 3585, 3643, 3700, 3755, 3808, 3859, 3908, 3955,
    4001, 4044, 4086, 4127, 4166, 4203, 4239, 4273, 4306, 4337, 4368, 4397,
    4424, 4451, 4476, 4500, 4524, 4546, 4567, 4587, 4606, 4625, 4643, 4659,
    4676, 4691, 4706, 4719, 4733, 4746, 4758, 4769, 4780, 4791, 4801, 4810,
    4819, 4828, 4836, 4844, 4852, 4859, 4866, 4872, 4878, 4884, 4890, 4895,
    4900, 4905, 4910, 4914, 4918, 4922, 4926, 4930, 4933, 4936, 4939, 4942,
    4945, 4948, 4950, 4953, 4955, 4957, 4960, 4962, 4963, 4965, 4967, 4969,
    4970, 4972, 4973, 4974, 4976, 4977, 4978, 4979, 4980, 4981, 4982, 4983,
    4984, 4985, 4985, 4986, 4987, 4987, 4988, 4989, 4989, 4990, 4990, 4991,
    4991, 4992, 4992, 4993, 4993, 4993, 4994, 4994, 4994, 4995, 4995, 4995,
    4995, 4996, 4996, 4996, 4996, 4997, 4997, 4997, 4997, 4997, 4997, 4998,
    4998, 4998, 4998, 4998, 4998, 4998, 4998, 4999, 4999, 4999, 4999, 4999,
    4999, 4999, 4999, 4999, 4999, 4999, 4999, 4999, 4999
  >>

CABRA_PESOS_G ==
  <<
    177, 188, 200, 212, 225, 238, 252, 267, 282, 298, 315, 333,
    351, 370, 390, 411, 433, 456, 480, 504, 530, 557, 585, 614,
    644, 675, 707, 741, 776, 812, 849, 888, 928, 969, 1012, 1056,
    1102, 1149, 1198, 1248, 1300, 1354, 1409, 1466, 1524, 1585, 1647, 1710,
    1776, 1843, 1913, 1984, 2057, 2132, 2208, 2287, 2368, 2451, 2536, 2623,
    2712, 2803, 2896, 2991, 3089, 3188, 3290, 3394, 3500, 3608, 3719, 3832,
    3947, 4064, 4184, 4306, 4430, 4556, 4685, 4816, 4950, 5085, 5223, 5364,
    5506, 5651, 5798, 5948, 6100, 6254, 6411, 6569, 6731, 6894, 7060, 7228,
    7398, 7570, 7745, 7922, 8101, 8283, 8466, 8652, 8840, 9030, 9222, 9416,
    9613, 9811, 10012, 10215, 10419, 10626, 10835, 11045, 11258, 11472, 11688, 11907,
    12127, 12349, 12572, 12798, 13025, 13254, 13484, 13716, 13950, 14186, 14423, 14661,
    14901, 15143, 15386, 15630, 15876, 16123, 16372, 16622, 16873, 17125, 17378, 17633,
    17889, 18146, 18404, 18663, 18923, 19184, 19446, 19709, 19973, 20238, 20503, 20770,
    21037, 21304, 21573, 21842, 22112, 22382, 22653, 22924, 23196, 23469, 23742, 24015,
    24289, 24563, 24837, 25112, 25387, 25662, 25937, 26212, 26488, 26764, 27040, 27316,
    27591, 27867, 28143, 28419, 28695, 28970, 29246, 29521, 29796, 30071, 30346, 30621,
    30895, 31169, 31442, 31715, 31988, 32260, 32532, 32804, 33075, 33345, 33615, 33885,
    34154, 34422, 34690, 34957, 35224, 35490, 35755, 36019, 36283, 36546, 36809, 37070,
    37331, 37591, 37850, 38109, 38366, 38623, 38879, 39134, 39388, 39641, 39894, 40145,
    40395, 40645, 40893, 41141, 41388, 41633, 41878, 42121, 42364, 42605, 42846, 43085,
    43323, 43560, 43797, 44032, 44266, 44498, 44730, 44961, 45190, 45419, 45646, 45872,
    46097, 46321, 46543, 46765, 46985, 47204, 47422, 47639, 47855, 48069, 48282, 48494,
    48705, 48915, 49123, 49331, 49537, 49742, 49945, 50148, 50349, 50549, 50748, 50946,
    51142, 51337, 51531, 51724, 51916, 52106, 52295, 52483, 52670, 52855, 53040, 53223,
    53405, 53586, 53765, 53944, 54121, 54297, 54472, 54645, 54818, 54989, 55159, 55328,
    55496, 55662, 55828, 55992, 56155, 56317, 56478, 56637, 56796, 56953, 57109, 57264,
    57418, 57571, 57723, 57873, 58023, 58171, 58318, 58465, 58610, 58754, 58897, 59038,
    59179, 59319, 59457, 59595, 59731, 59867, 60001, 60135, 60267, 60398, 60529, 60658,
    60786, 60913, 61040, 61165, 61289, 61412, 61534, 61656, 61776, 61895, 62014, 62131,
    62248, 62363, 62478, 62592, 62704, 62816, 62927, 63037, 63146, 63254, 63362, 63468,
    63574, 63678, 63782, 63885, 63987, 64088, 64188, 64288, 64387, 64484, 64581, 64678,
    64773, 64868, 64961, 65054, 65146, 65238, 65328, 65418, 65507, 65595, 65683, 65770,
    65856, 65941, 66026, 66109, 66192, 66275, 66356, 66437, 66517, 66597, 66676, 66754,
    66831, 66908, 66984, 67059, 67134, 67208, 67282, 67354, 67426, 67498, 67569, 67639,
    67708, 67777, 67846, 67913, 67981, 68047, 68113, 68178, 68243, 68307, 68371, 68434,
    68496, 68558, 68619, 68680, 68740, 68800, 68859, 68918, 68976, 69033, 69090, 69146,
    69202, 69258, 69313, 69367, 69421, 69474, 69527, 69580, 69632, 69683, 69734, 69785,
    69835, 69885, 69934, 69982, 70031, 70078, 70126, 70173, 70219, 70265, 70311, 70356,
    70401, 70445, 70489, 70533, 70576, 70618, 70661, 70703, 70744, 70785, 70826, 70866,
    70906, 70946, 70985, 71024, 71063, 71101, 71139, 71176, 71213, 71250, 71286, 71322,
    71358, 71393, 71428, 71463, 71497, 71531, 71565, 71598, 71632, 71664, 71697, 71729,
    71761, 71792, 71824, 71854, 71885, 71915, 71946, 71975, 72005, 72034, 72063, 72092,
    72120, 72148, 72176, 72204, 72231, 72258, 72285, 72311, 72337, 72363, 72389, 72415,
    72440, 72465, 72490, 72514, 72539, 72563, 72587, 72610, 72634, 72657, 72680, 72703,
    72725, 72747, 72770, 72791, 72813, 72835, 72856, 72877, 72898, 72918, 72939, 72959,
    72979, 72999, 73018, 73038, 73057, 73076, 73095, 73114, 73132, 73151, 73169, 73187,
    73205, 73222, 73240, 73257, 73274, 73291, 73308, 73325, 73341, 73358, 73374, 73390,
    73406, 73421, 73437, 73452, 73468, 73483, 73498, 73512, 73527, 73542, 73556, 73570,
    73584, 73598, 73612, 73626, 73639, 73653, 73666, 73679, 73692, 73705, 73718, 73731,
    73743, 73756, 73768, 73780, 73792, 73804, 73816, 73827, 73839, 73850, 73862, 73873,
    73884, 73895, 73906, 73917, 73928, 73938, 73949, 73959, 73969, 73980, 73990, 74000,
    74010, 74019, 74029, 74039, 74048, 74058, 74067, 74076, 74085, 74094, 74103, 74112,
    74121, 74130, 74138, 74147, 74155, 74164, 74172, 74180, 74188, 74196, 74204, 74212,
    74220, 74228, 74235, 74243, 74250, 74258, 74265, 74272, 74280, 74287, 74294, 74301,
    74308, 74315, 74321, 74328, 74335, 74341, 74348, 74354, 74361, 74367, 74373, 74380,
    74386, 74392, 74398, 74404, 74410, 74416, 74421, 74427, 74433, 74439, 74444, 74450,
    74455, 74460, 74466, 74471, 74476, 74482, 74487, 74492, 74497, 74502, 74507, 74512,
    74517, 74521, 74526, 74531, 74535, 74540, 74545, 74549, 74554, 74558, 74562, 74567,
    74571, 74575, 74580, 74584, 74588, 74592, 74596, 74600, 74604, 74608, 74612, 74616,
    74620, 74623, 74627, 74631, 74634, 74638, 74642, 74645, 74649, 74652, 74656, 74659,
    74663, 74666, 74669, 74672, 74676, 74679, 74682, 74685, 74688, 74692, 74695, 74698,
    74701, 74704, 74707, 74710, 74712, 74715, 74718, 74721, 74724, 74726, 74729, 74732,
    74735, 74737, 74740, 74742, 74745, 74747, 74750, 74752, 74755, 74757, 74760, 74762,
    74765, 74767, 74769, 74772, 74774, 74776, 74778, 74780, 74783, 74785, 74787, 74789,
    74791, 74793, 74795, 74797, 74799, 74801, 74803, 74805, 74807, 74809, 74811, 74813,
    74815, 74817, 74818, 74820, 74822, 74824, 74826, 74827, 74829, 74831, 74832, 74834,
    74836, 74837, 74839, 74841, 74842, 74844, 74845, 74847, 74848, 74850, 74851, 74853,
    74854, 74856, 74857, 74859, 74860, 74862, 74863, 74864, 74866, 74867, 74868, 74870,
    74871, 74872, 74873, 74875, 74876, 74877, 74878, 74880, 74881, 74882, 74883, 74884,
    74886, 74887, 74888, 74889, 74890, 74891, 74892, 74893, 74894, 74895, 74896, 74898,
    74899, 74900, 74901, 74902, 74903, 74904, 74904, 74905, 74906, 74907, 74908, 74909,
    74910, 74911, 74912, 74913, 74914, 74914, 74915, 74916, 74917, 74918, 74919, 74919,
    74920, 74921, 74922, 74923, 74923, 74924, 74925, 74926, 74926, 74927, 74928, 74929,
    74929, 74930, 74931, 74931, 74932, 74933, 74933, 74934, 74935, 74935, 74936, 74937,
    74937, 74938, 74939, 74939, 74940, 74940, 74941, 74942, 74942, 74943, 74943, 74944,
    74945, 74945, 74946, 74946, 74947, 74947, 74948, 74948, 74949, 74949, 74950, 74950,
    74951, 74951, 74952, 74952, 74953, 74953, 74954, 74954, 74955, 74955, 74956, 74956,
    74956, 74957, 74957, 74958, 74958, 74959, 74959, 74959, 74960, 74960, 74961, 74961,
    74961, 74962, 74962, 74963, 74963, 74963, 74964, 74964, 74964, 74965, 74965, 74966,
    74966, 74966, 74967, 74967, 74967, 74968, 74968, 74968, 74969, 74969, 74969, 74969,
    74970, 74970, 74970, 74971, 74971, 74971, 74972, 74972, 74972, 74972, 74973, 74973,
    74973, 74974, 74974, 74974, 74974, 74975, 74975, 74975, 74975, 74976, 74976, 74976,
    74976, 74977, 74977, 74977, 74977, 74978, 74978, 74978, 74978, 74978, 74979, 74979,
    74979, 74979, 74979, 74980, 74980, 74980, 74980, 74981, 74981, 74981, 74981, 74981,
    74981, 74982, 74982, 74982, 74982, 74982, 74983, 74983, 74983, 74983, 74983, 74983,
    74984, 74984, 74984, 74984, 74984, 74984, 74985, 74985, 74985, 74985, 74985, 74985,
    74986, 74986, 74986, 74986, 74986, 74986, 74986, 74987, 74987, 74987, 74987, 74987,
    74987, 74987, 74987, 74988, 74988, 74988, 74988, 74988, 74988, 74988, 74988, 74989,
    74989, 74989, 74989, 74989, 74989, 74989, 74989, 74990, 74990, 74990, 74990, 74990,
    74990, 74990, 74990, 74990, 74990, 74991, 74991, 74991, 74991, 74991, 74991, 74991,
    74991, 74991, 74991, 74992, 74992, 74992, 74992, 74992, 74992, 74992, 74992, 74992,
    74992, 74992, 74992, 74993, 74993, 74993, 74993, 74993, 74993, 74993, 74993, 74993,
    74993, 74993, 74993, 74993, 74994, 74994, 74994, 74994, 74994, 74994, 74994, 74994,
    74994, 74994, 74994, 74994, 74994, 74994, 74994, 74994, 74995, 74995, 74995, 74995,
    74995, 74995, 74995, 74995, 74995, 74995, 74995, 74995, 74995, 74995, 74995, 74995,
    74995, 74995, 74996, 74996, 74996, 74996, 74996, 74996, 74996, 74996, 74996, 74996,
    74996, 74996, 74996, 74996, 74996, 74996, 74996, 74996, 74996, 74996, 74996, 74996,
    74997, 74997, 74997, 74997, 74997, 74997, 74997, 74997, 74997, 74997, 74997, 74997,
    74997, 74997, 74997, 74997, 74997, 74997, 74997, 74997, 74997, 74997, 74997, 74997,
    74997, 74997, 74997, 74997, 74997, 74998, 74998, 74998, 74998, 74998, 74998, 74998,
    74998, 74998, 74998, 74998, 74998, 74998, 74998, 74998, 74998, 74998, 74998, 74998,
    74998, 74998, 74998, 74998, 74998, 74998, 74998, 74998, 74998, 74998, 74998, 74998,
    74998, 74998, 74998, 74998, 74998, 74998, 74998, 74998, 74998, 74998, 74999, 74999,
    74999, 74999, 74999, 74999, 74999, 74999, 74999, 74999, 74999, 74999, 74999, 74999,
    74999, 74999, 74999, 74999, 74999, 74999, 74999, 74999, 74999, 74999, 74999, 74999,
    74999, 74999, 74999, 74999, 74999, 74999, 74999, 74999, 74999, 74999, 74999, 74999,
    74999, 74999, 74999, 74999, 74999, 74999, 74999, 74999, 74999, 74999, 74999, 74999,
    74999, 74999, 74999, 74999, 74999, 74999, 74999, 74999, 74999, 74999, 74999, 74999,
    74999, 74999, 74999, 74999, 74999, 74999, 74999
  >>

\* The rabbits' curve with the sign of the inner exponent lost,
\* exp(k (t - t0)) for exp(-k (t - t0)): the curve mirrored about day 90.
crecimiento_conejo_exponente_invertido(edad_dias) ==
  IF edad_dias <= 180 THEN CONEJO_PESOS_G[180 - edad_dias + 1] ELSE 1

crecimiento_conejo(edad_dias) ==
  IF edad_dias < Len(CONEJO_PESOS_G) THEN CONEJO_PESOS_G[edad_dias + 1]
  ELSE CONEJO_PESO_MAX

crecimiento_cabra(edad_dias) ==
  IF edad_dias < Len(CABRA_PESOS_G) THEN CABRA_PESOS_G[edad_dias + 1]
  ELSE CABRA_PESO_MAX

---------------------------------------------------------------------------
(* Conejo and Cabra: constructors and the Presa trait.                     *)

Conejo_new(id, sexo) ==
  [id |-> id, especie |-> "Conejo", sexo |-> sexo, edad_dias |-> 0,
   peso_kg |-> crecimiento_conejo(0), vivo |-> TRUE]

Cabra_new(id, sexo) ==
  [id |-> id, especie |-> "Cabra", sexo |-> sexo, edad_dias |-> 0,
   peso_kg |-> crecimiento_cabra(0), vivo |-> TRUE]

\* Conejo::envejecer with >= for > in the test of the maximum age.
Conejo_envejecer_no_estricto(p, enferma) ==
  LET edad == p.edad_dias + 1
  IN  [p EXCEPT !.edad_dias = edad,
                !.peso_kg = crecimiento_conejo(edad),
                !.vivo = IF edad >= CONEJO_EDAD_MAXIMA_DIAS \/ enferma
                         THEN FALSE ELSE p.vivo]

\* Conejo::envejecer with the age advanced twice in one call.
Conejo_envejecer_dos_dias(p, enferma) ==
  LET edad == p.edad_dias + 2
  IN  [p EXCEPT !.edad_dias = edad,
                !.peso_kg = crecimiento_conejo(edad),
                !.vivo = IF edad > CONEJO_EDAD_MAXIMA_DIAS \/ enferma
                         THEN FALSE ELSE p.vivo]

\* enferma: the outcome of rand::random::<f64>() < PROBABILIDAD_ENFERMAR.
Conejo_envejecer(p, enferma) ==
  LET edad == p.edad_dias + 1
  IN  [p EXCEPT !.edad_dias = edad,
                !.peso_kg = crecimiento_conejo(edad),
                !.vivo = IF edad > CONEJO_EDAD_MAXIMA_DIAS \/ enferma
                         THEN FALSE ELSE p.vivo]

Cabra_envejecer(p, enferma) ==
  LET edad == p.edad_dias + 1
  IN  [p EXCEPT !.edad_dias = edad,
                !.peso_kg = crecimiento_cabra(edad),
                !.vivo = IF edad > CABRA_EDAD_MAXIMA_DIAS \/ enferma
                         THEN FALSE ELSE p.vivo]

\* Dynamic dispatch through Box<dyn Presa>.
envejecer(p, enferma) ==
  IF p.especie = "Conejo" THEN Conejo_envejecer(p, enferma)
  ELSE Cabra_envejecer(p, enferma)

\* The condition of Conejo::reproducirse without the test of the sex.
Conejo_puede_reproducirse_sin_sexo(p) ==
  p.edad_dias >= CONEJO_EDAD_REPRODUCTIVA_DIAS

\* The part of reproducirse's condition evaluated before rng.gen_bool is
\* called (&& short-circuits: an ineligible prey draws nothing).
Conejo_puede_reproducirse(p) ==
  p.sexo = "Hembra" /\ p.edad_dias >= CONEJO_EDAD_REPRODUCTIVA_DIAS

Cabra_puede_reproducirse(p) ==
  p.sexo = "Hembra" /\ p.edad_dias >= CABRA_EDAD_REPRODUCTIVA_DIAS

puede_reproducirse(p) ==
  IF p.especie = "Conejo" THEN Conejo_puede_reproducirse(p)
  ELSE Cabra_puede_reproducirse(p)

\* camada: the outcome of the draws of one call.  <<>> stands for
\* rng.gen_bool(TASA_REPRODUCCION_DIARIA) = false; otherwise Len(camada) is
\* the gen_range draw and camada[k] the sex drawn in the k-th new().
\* Returns the litter and the advanced id counter.
\* Conejo_reproducirse with the counter advanced once per litter, after the
\* loop, instead of once per newborn.
Conejo_reproducirse_un_incremento(p, camada, nid) ==
  IF Conejo_puede_reproducirse(p) /\ camada # <<>>
  THEN [crias |-> [k \in 1..Len(camada) |-> Conejo_new(nid, camada[k])],
        next_id |-> nid + 1]
  ELSE [crias |-> <<>>, next_id |-> nid]

\* Conejo::reproducirse asking first whether the prey is alive.
Conejo_reproducirse_si_viva(p, camada, nid) ==
  IF p.vivo /\ Conejo_puede_reproducirse(p) /\ camada # <<>>
  THEN [crias |-> [k \in 1..Len(camada) |-> Conejo_new(nid + k - 1, camada[k])],
        next_id |-> nid + Len(camada)]
  ELSE [crias |-> <<>>, next_id |-> nid]

Conejo_reproducirse(p, camada, nid) ==
  IF Conejo_puede_reproducirse(p) /\ camada # <<>>
  THEN [crias |-> [k \in 1..Len(camada) |-> Conejo_new(nid + k - 1, camada[k])],
        next_id |-> nid + Len(camada)]
  ELSE [crias |-> <<>>, next_id |-> nid]

Cabra_reproducirse(p, camada, nid) ==
  IF Cabra_puede_reproducirse(p) /\ camada # <<>>
  THEN [crias |-> [k \in 1..Len(camada) |-> Cabra_new(nid + k - 1, camada[k])],
        next_id |-> nid + Len(camada)]
  ELSE [crias |-> <<>>, next_id |-> nid]

reproducirse(p, camada, nid) ==
  IF p.especie = "Conejo" THEN Conejo_reproducirse(p, camada, nid)
  ELSE Cabra_reproducirse(p, camada, nid)

crias_por_parto(p) ==
  IF p.especie = "Conejo" THEN CONEJO_CRIAS_POR_PARTO ELSE CABRA_CRIAS_POR_PARTO

---------------------------------------------------------------------------
(* Depredador.                                                             *)

Depredador_new(reserva_inicial) ==
  [reserva_comida_kg |-> reserva_inicial, vivo |-> TRUE]

\* consumir_reserva with strict comparisons (> for >=).
consumir_reserva_estricto(d) ==
  IF d.reserva_comida_kg > DEPREDADOR_CONSUMO_OPTIMO_DIARIO_KG
  THEN [d EXCEPT !.reserva_comida_kg = @ - DEPREDADOR_CONSUMO_OPTIMO_DIARIO_KG]
  ELSE IF d.reserva_comida_kg > DEPREDADOR_CONSUMO_MINIMO_DIARIO_KG
  THEN [d EXCEPT !.reserva_comida_kg = @ - DEPREDADOR_CONSUMO_MINIMO_DIARIO_KG]
  ELSE [d EXCEPT !.vivo = FALSE]

\* Depredador::consumir_reserva without its last branch: the predator
\* that cannot pay the minimum is left as it is.
consumir_reserva_sin_muerte(d) ==
  IF d.reserva_comida_kg >= DEPREDADOR_CONSUMO_OPTIMO_DIARIO_KG
  THEN [d EXCEPT !.reserva_comida_kg =
                   @ - DEPREDADOR_CONSUMO_OPTIMO_DIARIO_KG]
  ELSE IF d.reserva_comida_kg >= DEPREDADOR_CONSUMO_MINIMO_DIARIO_KG
  THEN [d EXCEPT !.reserva_comida_kg = 0]
  ELSE d

\* consumir_reserva whose second tier takes the optimum amount.
consumir_reserva_optimo_siempre(d) ==
  IF d.reserva_comida_kg >= DEPREDADOR_CONSUMO_OPTIMO_DIARIO_KG
  THEN [d EXCEPT !.reserva_comida_kg = @ - DEPREDADOR_CONSUMO_OPTIMO_DIARIO_KG]
  ELSE IF d.reserva_comida_kg >= DEPREDADOR_CONSUMO_MINIMO_DIARIO_KG
  THEN [d EXCEPT !.reserva_comida_kg = @ - DEPREDADOR_CONSUMO_OPTIMO_DIARIO_KG]
  ELSE [d EXCEPT !.vivo = FALSE]

consumir_reserva(d) ==
  IF d.reserva_comida_kg >= DEPREDADOR_CONSUMO_OPTIMO_DIARIO_KG
  THEN [d EXCEPT !.reserva_comida_kg = @ - DEPREDADOR_CONSUMO_OPTIMO_DIARIO_KG]
  ELSE IF d.reserva_comida_kg >= DEPREDADOR_CONSUMO_MINIMO_DIARIO_KG
  THEN [d EXCEPT !.reserva_comida_kg = @ - DEPREDADOR_CONSUMO_MINIMO_DIARIO_KG]
  ELSE [d EXCEPT !.vivo = FALSE]

\* edad_sacrificio reading the reproductive ages.
edad_sacrificio_reproductiva(p) ==
  IF p.especie = "Conejo" THEN CONEJO_EDAD_REPRODUCTIVA_DIAS
  ELSE CABRA_EDAD_REPRODUCTIVA_DIAS

edad_sacrificio(p) ==
  IF p.especie = "Conejo" THEN CONEJO_EDAD_SACRIFICIO_DIAS
  ELSE CABRA_EDAD_SACRIFICIO_DIAS

\* The filter applied to the age the prey will have after the day's aging.
presas_cazables_edad_nueva(ps) ==
  {i \in 1..Len(ps) :
     ps[i].edad_dias + 1 >= edad_sacrificio(ps[i]) /\ ps[i].vivo}

\* Step 1 of cazar: the indices of the prey that pass the filter.
presas_cazables(ps) ==
  {i \in 1..Len(ps) : ps[i].edad_dias >= edad_sacrificio(ps[i]) /\ ps[i].vivo}

\* Step 2: fold(0.0, f64::max) over the weights of the huntable prey.
peso_maximo(ps) ==
  LET pesos == {ps[i].peso_kg : i \in presas_cazables(ps)} \cup {0}
  IN  CHOOSE m \in pesos : \A w \in pesos : w <= m

\* mejores_presas_indices without the tolerance (peso >= peso_maximo).
mejores_presas_indices_sin_tolerancia(ps) ==
  LET mejores == {i \in presas_cazables(ps) :
                    ps[i].peso_kg >= peso_maximo(ps)}
      RECURSIVE ordenados(_)
      ordenados(S) ==
        IF S = {} THEN <<>>
        ELSE LET i == CHOOSE x \in S : \A y \in S : x <= y
             IN  <<i>> \o ordenados(S \ {i})
  IN  ordenados(mejores)

\* Step 3: the huntable indices within the tolerance of the maximum, in
\* the order of the vector.
mejores_presas_indices(ps) ==
  LET mejores == {i \in presas_cazables(ps) :
                    ps[i].peso_kg >= peso_maximo(ps) - TOLERANCIA_PESO}
      RECURSIVE ordenados(_)
      ordenados(S) ==
        IF S = {} THEN <<>>
        ELSE LET i == CHOOSE x \in S : \A y \in S : x <= y
             IN  <<i>> \o ordenados(S \ {i})
  IN  ordenados(mejores)

\* Vec::remove(i), with i a 1-based index here.
remove(ps, i) == SubSeq(ps, 1, i - 1) \o SubSeq(ps, i + 1, Len(ps))

\* elegida: the position mejores_presas_indices.choose(rng) picks.
cazar(d, ps, elegida) ==
  IF presas_cazables(ps) = {} THEN [depredador |-> d, presas |-> ps]
  ELSE LET mejores == mejores_presas_indices(ps)
       IN  IF mejores = <<>> THEN [depredador |-> d, presas |-> ps]
           ELSE LET indice_a_cazar == mejores[elegida]
                    presa_cazada == ps[indice_a_cazar]
                IN  [depredador |->
                       [d EXCEPT !.reserva_comida_kg = @ + presa_cazada.peso_kg],
                     presas |-> remove(ps, indice_a_cazar)]

\* The outcomes choose(rng) can have on ps.
elecciones(ps) ==
  LET n == Len(mejores_presas_indices(ps)) IN 1..(IF n = 0 THEN 1 ELSE n)

---------------------------------------------------------------------------
(* Simulacion.                                                             *)

Sim ==
  [dia |-> dia, presas |-> presas, depredador |-> depredador,
   next_id |-> next_id]

\* FASE 2 with the newborns aged on the day of their birth, as if they were
\* pushed to the vector the loop runs over.
RECURSIVE fase_presas_crias_envejecidas(_, _, _)
fase_presas_crias_envejecidas(ps, sorteos, nid) ==
  IF ps = <<>>
  THEN [presas |-> <<>>, nuevas_crias |-> <<>>, next_id |-> nid]
  ELSE LET p == envejecer(Head(ps), Head(sorteos).enferma)
           r == reproducirse(p, Head(sorteos).camada, nid)
           resto == fase_presas_crias_envejecidas(Tail(ps), Tail(sorteos),
                                                  r.next_id)
       IN  [presas |-> <<p>> \o resto.presas,
            nuevas_crias |->
              [k \in 1..Len(r.crias) |-> envejecer(r.crias[k], FALSE)]
                \o resto.nuevas_crias,
            next_id |-> resto.next_id]

\* FASE 2 of avanzar_dia: for presa in &mut self.presas { envejecer;
\* nuevas_crias.extend(reproducirse(..)) }.  sorteos[i] holds the draws made
\* for the i-th prey.
RECURSIVE fase_presas(_, _, _)
fase_presas(ps, sorteos, nid) ==
  IF ps = <<>>
  THEN [presas |-> <<>>, nuevas_crias |-> <<>>, next_id |-> nid]
  ELSE LET p == envejecer(Head(ps), Head(sorteos).enferma)
           r == reproducirse(p, Head(sorteos).camada, nid)
           resto == fase_presas(Tail(ps), Tail(sorteos), r.next_id)
       IN  [presas |-> <<p>> \o resto.presas,
            nuevas_crias |-> r.crias \o resto.nuevas_crias,
            next_id |-> resto.next_id]

\* FASE 1 without the test of depredador.vivo after consumir_reserva.
fase_depredador_sin_guarda(s, elegida) ==
  LET d == consumir_reserva(s.depredador)
  IN  IF s.presas # <<>> THEN cazar(d, s.presas, elegida)
      ELSE [depredador |-> d, presas |-> s.presas]

\* FASE 1 of avanzar_dia.
fase_depredador(s, elegida) ==
  LET d == consumir_reserva(s.depredador)
  IN  IF d.vivo /\ s.presas # <<>> THEN cazar(d, s.presas, elegida)
      ELSE [depredador |-> d, presas |-> s.presas]

\* retain that keeps every prey.
retain_todas(ps) == ps

\* self.presas.retain(|p| p.esta_viva())
retain_vivas(ps) == SelectSeq(ps, LAMBDA p : p.vivo)

\* avanzar_dia with the early return placed after self.dia += 1.
avanzar_dia_retorno_tardio(s, t) ==
  IF ~s.depredador.vivo THEN [s EXCEPT !.dia = @ + 1]
  ELSE LET f1 == fase_depredador(s, t.elegida)
           f2 == fase_presas(f1.presas, t.sorteos, s.next_id)
       IN  [dia |-> s.dia + 1,
            presas |-> retain_vivas(f2.presas \o f2.nuevas_crias),
            depredador |-> f1.depredador,
            next_id |-> f2.next_id]

\* t: the draws of the call, [elegida, sorteos].
\* avanzar_dia returning as soon as consumir_reserva has killed the
\* predator, before FASE 2.
avanzar_dia_sin_fase_al_morir(s, t) ==
  IF ~s.depredador.vivo THEN s
  ELSE LET f1 == fase_depredador(s, t.elegida)
           f2 == fase_presas(f1.presas, t.sorteos, s.next_id)
       IN  IF ~f1.depredador.vivo
           THEN [s EXCEPT !.dia = s.dia + 1, !.depredador = f1.depredador]
           ELSE [dia |-> s.dia + 1,
                 presas |-> retain_vivas(f2.presas \o f2.nuevas_crias),
                 depredador |-> f1.depredador,
                 next_id |-> f2.next_id]

avanzar_dia(s, t) ==
  IF ~s.depredador.vivo THEN s
  ELSE LET f1 == fase_depredador(s, t.elegida)
           f2 == fase_presas(f1.presas, t.sorteos, s.next_id)
       IN  [dia |-> s.dia + 1,
            presas |-> retain_vivas(f2.presas \o f2.nuevas_crias),
            depredador |-> f1.depredador,
            next_id |-> f2.next_id]

\* The ids given to the prey born in the call, in order of issue.
ids_emitidos(s, t) ==
  IF ~s.depredador.vivo THEN <<>>
  ELSE LET f1 == fase_depredador(s, t.elegida)
           f2 == fase_presas(f1.presas, t.sorteos, s.next_id)
       IN  [k \in 1..Len(f2.nuevas_crias) |-> f2.nuevas_crias[k].id]

\* The prey the call's retain drops.
bajas_del_dia(s, t) ==
  IF ~s.depredador.vivo THEN 0
  ELSE LET f1 == fase_depredador(s, t.elegida)
           f2 == fase_presas(f1.presas, t.sorteos, s.next_id)
       IN  Len(f2.presas \o f2.nuevas_crias)
             - Len(retain_vivas(f2.presas \o f2.nuevas_crias))

---------------------------------------------------------------------------
(* The draws a call can make.                                              *)

\* Litters the draws of reproducirse can yield for p (already aged), with
\* at most cupo newborns.
camadas(p, cupo) ==
  IF puede_reproducirse(p)
  THEN {<<>>} \cup
       UNION {[1..n -> Sexo] :
                n \in {m \in crias_por_parto(p)[1]..crias_por_parto(p)[2] :
                         m <= cupo}}
  ELSE {<<>>}

\* Whether envejecer reaches its disease draw for p: || short-circuits, so
\* a prey whose new age exceeds the maximum draws nothing.
sortea_enfermedad(p) ==
  p.edad_dias + 1 <= (IF p.especie = "Conejo" THEN CONEJO_EDAD_MAXIMA_DIAS
                      ELSE CABRA_EDAD_MAXIMA_DIAS)

RECURSIVE sorteos_presas(_, _, _)
sorteos_presas(ps, cupo, enfermas) ==
  IF ps = <<>> THEN {<<>>}
  ELSE UNION {
         {<<[enferma |-> e, camada |-> c]>> \o resto :
            resto \in sorteos_presas(Tail(ps), cupo - Len(c),
                                     IF e THEN enfermas - 1 ELSE enfermas)} :
         e \in {b \in BOOLEAN : b => (enfermas > 0 /\ sortea_enfermedad(Head(ps)))},
         c \in camadas(envejecer(Head(ps), FALSE), cupo)}

\* Newborn ids the run may still issue.
cupo_crias(s) == N_CONEJOS_INICIAL + N_CABRAS_INICIAL + MaxCrias - s.next_id

\* Disease draws the run may still see come out true.
cupo_enfermas == MaxEnfermas - azar.enfermas

tiradas(s) ==
  IF ~s.depredador.vivo THEN {[elegida |-> 1, sorteos |-> <<>>]}
  ELSE UNION {
         {[elegida |-> k, sorteos |-> so] :
            so \in sorteos_presas(fase_depredador(s, k).presas, cupo_crias(s),
                                  cupo_enfermas)} :
         k \in elecciones(s.presas)}

\* The draws of a call that came out true: disease draws and
\* reproduction draws.
enfermas_sorteadas(t) ==
  Cardinality({i \in 1..Len(t.sorteos) : t.sorteos[i].enferma})

partos_sorteados(t) ==
  Cardinality({i \in 1..Len(t.sorteos) : t.sorteos[i].camada # <<>>})

---------------------------------------------------------------------------
(* Initial states.                                                         *)

\* Simulacion::new() for cohorts of n_conejos rabbits and n_cabras goats;
\* sexos_conejos, sexos_cabras: the sexes drawn in the constructors.
Simulacion_new(n_conejos, n_cabras, sexos_conejos, sexos_cabras) ==
  [dia |-> 0,
   presas |-> [i \in 1..n_conejos |-> Conejo_new(i - 1, sexos_conejos[i])]
              \o [i \in 1..n_cabras |->
                    Cabra_new(n_conejos + i - 1, sexos_cabras[i])],
   depredador |-> Depredador_new(DEPREDADOR_RESERVA_INICIAL_KG),
   next_id |-> n_conejos + n_cabras]

\* A prey after edad healthy days: edad calls of envejecer, none of which
\* set vivo to false (edad does not exceed the species' maximum age).
sana(p, edad) ==
  [p EXCEPT !.edad_dias = edad,
            !.peso_kg = IF p.especie = "Conejo" THEN crecimiento_conejo(edad)
                        ELSE crecimiento_cabra(edad)]

\* The days at which runs are picked up, each with the predator's reserve
\* on that day.  Up to day 150 no prey has reached its slaughter age at the
\* time of a hunt, so the reserve is 900 kg less 5 kg a day; the same holds
\* at day 179 of a world without rabbits.  The later days stand just before
\* a threshold of the species table, with a reserve a run can hold there.
Escenarios ==
  {[dia |-> 1, reserva |-> 895000],
   [dia |-> 99, reserva |-> 405000],
   [dia |-> 149, reserva |-> 155000],
   [dia |-> 179, reserva |-> 5000],
   [dia |-> 249, reserva |-> 8000],
   [dia |-> 249, reserva |-> 5000],
   [dia |-> 299, reserva |-> 20000],
   [dia |-> 1824, reserva |-> 20000],
   [dia |-> 1825, reserva |-> 20000],
   [dia |-> 5474, reserva |-> 20000],
   [dia |-> 5475, reserva |-> 20000]}

\* The survivors of new()'s cohort on the scenario's day: the first rabbits
\* and the first goats of the cohort, the others having died of disease and
\* no litter having been born.
Init ==
  \E e \in Escenarios, nc \in 0..MaxCohorte, nb \in 0..MaxCohorte :
    \E sc \in [1..nc -> Sexo], sb \in [1..nb -> Sexo] :
      /\ nc + nb <= MaxCohorte
      /\ nc > 0 => e.dia <= CONEJO_EDAD_MAXIMA_DIAS
      /\ nb > 0 => e.dia <= CABRA_EDAD_MAXIMA_DIAS
      /\ dia = e.dia
      /\ presas = [i \in 1..nc |-> sana(Conejo_new(i - 1, sc[i]), e.dia)]
                  \o [i \in 1..nb |->
                        sana(Cabra_new(N_CONEJOS_INICIAL + i - 1, sb[i]), e.dia)]
      /\ depredador = Depredador_new(e.reserva)
      /\ next_id = N_CONEJOS_INICIAL + N_CABRAS_INICIAL
      /\ op = "new"
      /\ llamadas = 0
      /\ ociosas = 0
      /\ emitidos = [i \in 1..nc |-> i - 1]
                    \o [i \in 1..nb |-> N_CONEJOS_INICIAL + i - 1]
      /\ bajas = 0
      /\ horizonte = e.dia + MaxDias
      /\ nacimientos = [i \in 1..(nc + nb) |-> 0]
      /\ azar = [enfermas |-> 0, partos |-> 0]
      /\ inicio = [dia |-> dia, reserva |-> depredador.reserva_comida_kg]

\* The empty world: new() with no rabbits and no goats.
InitAyuno ==
  LET s == Simulacion_new(0, 0, <<>>, <<>>)
  IN  /\ dia = s.dia
      /\ presas = s.presas
      /\ depredador = s.depredador
      /\ next_id = s.next_id
      /\ op = "new"
      /\ llamadas = 0
      /\ ociosas = 0
      /\ emitidos = <<>>
      /\ bajas = 0
      /\ horizonte = MaxDiasAyuno
      /\ nacimientos = <<>>
      /\ azar = [enfermas |-> 0, partos |-> 0]
      /\ inicio = [dia |-> dia, reserva |-> depredador.reserva_comida_kg]

\* A world whose prey have all gone, on the day and with the reserve of one
\* of the scenarios, followed until the reserve runs out.
InitExtincion ==
  \E e \in Escenarios :
    LET s == Simulacion_new(0, 0, <<>>, <<>>)
    IN  /\ dia = e.dia
        /\ presas = s.presas
        /\ depredador = Depredador_new(e.reserva)
        /\ next_id = s.next_id
        /\ op = "new"
        /\ llamadas = 0
        /\ ociosas = 0
        /\ emitidos = <<>>
        /\ bajas = 0
        /\ horizonte = e.dia + MaxDiasAyuno
        /\ nacimientos = <<>>
        /\ azar = [enfermas |-> 0, partos |-> 0]
        /\ inicio = [dia |-> dia, reserva |-> depredador.reserva_comida_kg]

\* Prey that Depredador::cazar can be handed: prey built by new() and
\* aged, healthy or dead (cazar does not read sexo).
EdadesCaza ==
  [Conejo |-> {149, 150, 250, 300}, Cabra |-> {249, 250, 251}]

PresasCaza ==
  {[sana(Conejo_new(0, "Hembra"), a) EXCEPT !.vivo = v] :
     a \in EdadesCaza.Conejo, v \in BOOLEAN}
  \cup
  {[sana(Cabra_new(0, "Hembra"), a) EXCEPT !.vivo = v] :
     a \in EdadesCaza.Cabra, v \in BOOLEAN}

ReservasCaza == {0, 2999, 3000, 4999, 5000, 8000}

InitDepredador ==
  \E n \in 0..MaxPresasCaza :
    \E ps \in [1..n -> PresasCaza], r \in ReservasCaza, v \in BOOLEAN :
      /\ dia = 0
      /\ presas = [i \in 1..n |-> [ps[i] EXCEPT !.id = i - 1]]
      /\ depredador = [Depredador_new(r) EXCEPT !.vivo = v]
      /\ next_id = n
      /\ op = "new"
      /\ llamadas = 0
      /\ ociosas = 0
      /\ emitidos = [i \in 1..n |-> i - 1]
      /\ bajas = 0
      /\ horizonte = 0
      /\ nacimientos = [i \in 1..n |-> 0]
      /\ azar = [enfermas |-> 0, partos |-> 0]
      /\ inicio = [dia |-> dia, reserva |-> depredador.reserva_comida_kg]

---------------------------------------------------------------------------
(* Operations.                                                             *)

\* Simulacion::avanzar_dia, as main's loop calls it.
AvanzarDia ==
  /\ IF depredador.vivo THEN dia < horizonte ELSE ociosas < MaxOciosas
  /\ \E t \in tiradas(Sim) :
       LET s == avanzar_dia(Sim, t)
           ids == ids_emitidos(Sim, t)
       IN  /\ dia' = s.dia
           /\ presas' = s.presas
           /\ depredador' = s.depredador
           /\ next_id' = s.next_id
           /\ emitidos' = emitidos \o ids
           /\ nacimientos' = nacimientos \o [k \in 1..Len(ids) |-> s.dia]
           /\ bajas' = bajas_del_dia(Sim, t)
           /\ azar' = [enfermas |-> azar.enfermas + enfermas_sorteadas(t),
                       partos |-> azar.partos + partos_sorteados(t)]
  /\ op' = "avanzar_dia"
  /\ llamadas' = llamadas + 1
  /\ ociosas' = IF depredador.vivo THEN ociosas ELSE ociosas + 1
  /\ UNCHANGED <<horizonte, inicio>>

\* Depredador::consumir_reserva called directly.
ConsumirReserva ==
  /\ llamadas < MaxLlamadas
  /\ depredador' = consumir_reserva(depredador)
  /\ op' = "consumir_reserva"
  /\ llamadas' = llamadas + 1
  /\ UNCHANGED <<dia, presas, next_id, ociosas, emitidos, bajas, horizonte,
                 nacimientos, azar, inicio>>

\* Depredador::cazar called directly.
Cazar ==
  /\ llamadas < MaxLlamadas
  /\ \E k \in elecciones(presas) :
       LET r == cazar(depredador, presas, k)
       IN  /\ depredador' = r.depredador
           /\ presas' = r.presas
  /\ op' = "cazar"
  /\ llamadas' = llamadas + 1
  /\ UNCHANGED <<dia, next_id, ociosas, emitidos, bajas, horizonte,
                 nacimientos, azar, inicio>>

\* A single prey of any age up to MaxEdadCrecimiento, on which the methods
\* of Presa are called directly.
InitEnvejecer ==
  \E e \in Especie, sx \in Sexo, a \in 0..MaxEdadCrecimiento :
    /\ dia = 0
    /\ presas = <<sana(IF e = "Conejo" THEN Conejo_new(0, sx)
                       ELSE Cabra_new(0, sx), a)>>
    /\ depredador = Depredador_new(DEPREDADOR_RESERVA_INICIAL_KG)
    /\ next_id = 1
    /\ op = "new"
    /\ llamadas = 0
    /\ ociosas = 0
    /\ emitidos = <<0>>
    /\ bajas = 0
    /\ horizonte = 0
    /\ nacimientos = <<0>>
    /\ azar = [enfermas |-> 0, partos |-> 0]
    /\ inicio = [dia |-> dia, reserva |-> depredador.reserva_comida_kg]

\* Presa::envejecer called directly on a prey.
Envejecer ==
  /\ llamadas < MaxLlamadas
  /\ \E i \in 1..Len(presas) :
       \E enferma \in {b \in BOOLEAN : b => sortea_enfermedad(presas[i])} :
         /\ presas' = [presas EXCEPT ![i] = envejecer(presas[i], enferma)]
         /\ azar' = [azar EXCEPT !.enfermas = IF enferma THEN @ + 1 ELSE @]
  /\ op' = "envejecer"
  /\ llamadas' = llamadas + 1
  /\ UNCHANGED <<dia, depredador, next_id, ociosas, emitidos, bajas,
                 horizonte, nacimientos, inicio>>

\* The ages at which reproducirse is called directly: birth, the days
\* around the reproductive age, and the maximum age.
EdadesReproducirse ==
  [Conejo |-> {0, 99, 100, 101, 1825}, Cabra |-> {0, 299, 300, 301, 5475}]

\* A single prey, alive or not, and the id counter of its caller.
InitReproducirse ==
  \E e \in Especie, sx \in Sexo, v \in BOOLEAN, nid \in {1, 85} :
    \E a \in EdadesReproducirse[e] :
      /\ dia = 0
      /\ presas = <<[sana(IF e = "Conejo" THEN Conejo_new(0, sx)
                          ELSE Cabra_new(0, sx), a) EXCEPT !.vivo = v]>>
      /\ depredador = Depredador_new(DEPREDADOR_RESERVA_INICIAL_KG)
      /\ next_id = nid
      /\ op = "new"
      /\ llamadas = 0
      /\ ociosas = 0
      /\ emitidos = <<0>>
      /\ bajas = 0
      /\ horizonte = 0
      /\ nacimientos = <<0>>
      /\ azar = [enfermas |-> 0, partos |-> 0]
      /\ inicio = [dia |-> dia, reserva |-> depredador.reserva_comida_kg]

\* Presa::reproducirse called directly on a prey; the newborns it returns
\* are appended to the population, as avanzar_dia does.
Reproducirse ==
  /\ llamadas < MaxPartos
  /\ \E i \in 1..Len(presas) :
       \E camada \in camadas(presas[i], crias_por_parto(presas[i])[2]) :
         LET r == reproducirse(presas[i], camada, next_id)
         IN  /\ presas' = presas \o r.crias
             /\ next_id' = r.next_id
             /\ emitidos' = emitidos \o [k \in 1..Len(r.crias) |-> r.crias[k].id]
             /\ nacimientos' = nacimientos \o [k \in 1..Len(r.crias) |-> dia]
             /\ azar' = [azar EXCEPT !.partos = IF camada # <<>> THEN @ + 1 ELSE @]
  /\ op' = "reproducirse"
  /\ llamadas' = llamadas + 1
  /\ UNCHANGED <<dia, depredador, ociosas, bajas, horizonte, inicio>>

\* Depredador::new called directly: the caller picks the initial reserve.
ReservasIniciales == {-1000, 0, 2999, 5000, 900000}

DepredadorNew ==
  /\ llamadas < MaxLlamadas
  /\ \E reserva_inicial \in ReservasIniciales :
       depredador' = Depredador_new(reserva_inicial)
  /\ op' = "Depredador_new"
  /\ llamadas' = llamadas + 1
  /\ UNCHANGED <<dia, presas, next_id, ociosas, emitidos, bajas, horizonte,
                 nacimientos, azar, inicio>>

Next == AvanzarDia

NextDepredador == ConsumirReserva \/ Cazar

NextConstruccion == DepredadorNew \/ ConsumirReserva \/ Cazar

NextEnvejecer == Envejecer

NextReproducirse == Reproducirse

\* The program: main constructs the simulation and calls avanzar_dia.
Spec == Init /\ [][Next]_vars

\* The program in the empty world.
SpecAyuno == InitAyuno /\ [][Next]_vars

\* Depredador's public methods called on their own.
SpecDepredador == InitDepredador /\ [][NextDepredador]_vars

\* Depredador built by its caller and then used.
SpecConstruccion == InitDepredador /\ [][NextConstruccion]_vars

\* Presa::envejecer called on one prey, day after day.
SpecEnvejecer == InitEnvejecer /\ [][NextEnvejecer]_vars

\* Presa::reproducirse called on one prey.
SpecReproducirse == InitReproducirse /\ [][NextReproducirse]_vars

\* The main loop keeps calling avanzar_dia: a call that can be made is made.
SpecExtincion == InitExtincion /\ [][Next]_vars /\ WF_vars(Next)

---------------------------------------------------------------------------
(* Properties.                                                             *)

\* C1: once the predator is dead, a call of avanzar_dia changes nothing:
\* dia, presas, depredador (reserve and alive flag) and next_id all keep
\* their values, call after call.
C1_TerminalNoOp ==
  [][~depredador.vivo =>
       /\ dia' = dia
       /\ presas' = presas
       /\ depredador' = depredador
       /\ next_id' = next_id]_vars

\* Reached: the predator is dead and avanzar_dia has been called on it
\* MaxOciosas times since.
C1_Witness == ~depredador.vivo /\ ociosas >= 2 /\ presas # <<>>

\* C2: the predator's death is one-way; it dies only in a call that begins
\* with the reserve below the minimum daily requirement (and that call
\* leaves the reserve as it was); a call that begins with at least the
\* minimum, in which the predator may hunt, leaves it alive.
C2_MuerteIrreversible ==
  [][/\ ~depredador.vivo => ~depredador'.vivo
     /\ (depredador.vivo /\ ~depredador'.vivo) =>
          /\ depredador.reserva_comida_kg < 3000
          /\ depredador'.reserva_comida_kg = depredador.reserva_comida_kg
     /\ (depredador.vivo /\ depredador.reserva_comida_kg >= 3000) =>
          depredador'.vivo]_vars

\* Reached: the predator has died with prey still present and a later call
\* has found it dead.
C2_Witness == ~depredador.vivo /\ ociosas = 1 /\ presas # <<>>

\* C3: the predator's reserve is never negative.
C3_ReservaNoNegativa == depredador.reserva_comida_kg >= 0

\* Reached: a day's consumption has taken the reserve down to exactly 0 and
\* the predator lives on.
C3_Witness ==
  depredador.reserva_comida_kg = 0 /\ depredador.vivo /\ llamadas > 0

\* C4: the population holds no prey whose vivo flag is false, in the
\* initial state and after every call of avanzar_dia.
C4_SoloVivas == \A i \in 1..Len(presas) : presas[i].vivo

\* Reached: the call on which the predator starved dropped a prey that died
\* that day.
C4_Witness ==
  ~depredador.vivo /\ ociosas = 0 /\ bajas > 0 /\ op = "avanzar_dia"

\* C5: ids are issued in strictly increasing order (so no two issued ids
\* are equal, whether their holders are still present or not), every issued
\* id is below next_id, the prey present hold pairwise distinct issued ids,
\* and next_id never decreases.
C5_IdsEmitidos ==
  /\ \A i, j \in 1..Len(emitidos) : i < j => emitidos[i] < emitidos[j]
  /\ \A i \in 1..Len(emitidos) : emitidos[i] < next_id
  /\ \A i, j \in 1..Len(presas) : i # j => presas[i].id # presas[j].id
  /\ \A i \in 1..Len(presas) :
       \E k \in 1..Len(emitidos) : emitidos[k] = presas[i].id

C5_IdsCrecientes == []C5_IdsEmitidos /\ [][next_id' >= next_id]_vars

\* Reached: a litter has been born and one of its members is no longer in
\* the population, while another still is.
C5_Witness ==
  /\ \E k \in 1..Len(emitidos) :
       /\ emitidos[k] >= N_CONEJOS_INICIAL + N_CABRAS_INICIAL
       /\ \A i \in 1..Len(presas) : presas[i].id # emitidos[k]
  /\ \E i \in 1..Len(presas) :
       presas[i].id >= N_CONEJOS_INICIAL + N_CABRAS_INICIAL

\* C6: consumir_reserva subtracts exactly 5.0 kg from a reserve of at least
\* 5.0 kg, else exactly 3.0 kg from a reserve of at least 3.0 kg, the
\* predator's alive flag staying as it was; below 3.0 kg it leaves the
\* reserve alone and clears the alive flag.
C6_TresNiveles ==
  [][op' = "consumir_reserva" =>
       LET r == depredador.reserva_comida_kg
       IN  /\ r >= 5000 =>
                /\ depredador'.reserva_comida_kg = r - 5000
                /\ depredador'.vivo = depredador.vivo
           /\ (r >= 3000 /\ r < 5000) =>
                /\ depredador'.reserva_comida_kg = r - 3000
                /\ depredador'.vivo = depredador.vivo
           /\ r < 3000 =>
                /\ depredador'.reserva_comida_kg = r
                /\ ~depredador'.vivo]_vars

\* Reached: one consumption has emptied the reserve and the predator is
\* alive (the reserve was exactly 5.0 kg or exactly 3.0 kg).
C6_Witness ==
  /\ op = "consumir_reserva"
  /\ llamadas = 1
  /\ depredador.reserva_comida_kg = 0
  /\ depredador.vivo

\* C7: cazar called on a dead predator leaves the population and the
\* predator as they were.
C7_CazarMuertoNoOp ==
  [][(op' = "cazar" /\ ~depredador.vivo) =>
       (presas' = presas /\ depredador' = depredador)]_vars

\* Whether the i-th prey of ps may be culled: alive and of its species'
\* slaughter age.
EsCazable(ps, i) ==
  /\ ps[i].vivo
  /\ ps[i].edad_dias >= (IF ps[i].especie = "Conejo" THEN 150 ELSE 250)

\* C8: cazar removes at most one prey, and only one that is alive and of
\* its species' slaughter age (150 for Conejo, 250 for Cabra, inclusive),
\* adding its weight to the reserve; a lone live rabbit of age 150 is
\* removed and the growth value at age 150 added; with no such prey the
\* population and the reserve are unchanged.
C8_SoloCazables ==
  [][op' = "cazar" =>
       /\ \/ presas' = presas /\ depredador' = depredador
          \/ \E i \in 1..Len(presas) :
               /\ EsCazable(presas, i)
               /\ presas' = remove(presas, i)
               /\ depredador'.reserva_comida_kg =
                    depredador.reserva_comida_kg + presas[i].peso_kg
       /\ (/\ Len(presas) = 1
           /\ presas[1].especie = "Conejo"
           /\ presas[1].edad_dias = 150
           /\ presas[1].vivo) =>
            /\ presas' = <<>>
            /\ depredador'.reserva_comida_kg =
                 depredador.reserva_comida_kg + crecimiento_conejo(150)
       /\ (\A i \in 1..Len(presas) : ~EsCazable(presas, i)) =>
            (presas' = presas /\ depredador' = depredador)]_vars

\* Reached: one hunt has emptied the population and raised the reserve by
\* the weight of a rabbit of age 150.
C8_Witness ==
  /\ op = "cazar"
  /\ llamadas = 1
  /\ presas = <<>>
  /\ \E r \in ReservasCaza :
       depredador.reserva_comida_kg = r + crecimiento_conejo(150)

\* The indices of ps within 0.01 kg of the heaviest cullable prey.
Banda(ps) ==
  {i \in 1..Len(ps) :
     /\ EsCazable(ps, i)
     /\ \A j \in 1..Len(ps) :
          EsCazable(ps, j) => ps[i].peso_kg >= ps[j].peso_kg - 10}

\* What a hunt of a population with cullable prey does: it removes one prey
\* of the band, adds that prey's weight to the reserve and leaves the
\* others, in order.
C9_Paso ==
  (op' = "cazar" /\ \E i \in 1..Len(presas) : EsCazable(presas, i)) =>
    \E i \in Banda(presas) :
      /\ presas' = remove(presas, i)
      /\ Len(presas') = Len(presas) - 1
      /\ depredador'.reserva_comida_kg =
           depredador.reserva_comida_kg + presas[i].peso_kg

\* Every prey of the band is removed by cazar under some outcome of choose.
C9_Posibles ==
  \A i \in Banda(presas) :
    \E k \in elecciones(presas) :
      cazar(depredador, presas, k).presas = remove(presas, i)

\* C9: with cullable prey present, one hunt removes exactly one prey, whose
\* weight is within 0.01 kg of the heaviest cullable prey, adds exactly
\* that weight to the reserve and leaves every other prey in place; each
\* prey of the band can be the one removed, and no other prey can.
C9_BandaDeEmpate == []C9_Posibles /\ [][C9_Paso]_vars

\* Reached: one hunt has removed one of two cullable prey of equal weight;
\* the other is the only prey left.
C9_Witness ==
  /\ op = "cazar"
  /\ llamadas = 1
  /\ Len(presas) = 1
  /\ EsCazable(presas, 1)
  /\ \E r \in ReservasCaza :
       depredador.reserva_comida_kg = r + presas[1].peso_kg

\* C10: in the empty world, each of the first 180 calls takes exactly
\* 5.0 kg, so the reserve is 900 - 5 * dia through day 180, where it is 0
\* with the predator alive; the 181st call finds less than 3.0 kg and the
\* predator dies with the reserve left at 0.
C10_Ayuno ==
  /\ llamadas <= 180 =>
       /\ dia = llamadas
       /\ depredador.vivo
       /\ depredador.reserva_comida_kg = 900000 - 5000 * llamadas
  /\ llamadas = 180 => depredador.reserva_comida_kg = 0
  /\ llamadas >= 181 =>
       /\ ~depredador.vivo
       /\ depredador.reserva_comida_kg = 0
  /\ presas = <<>>

\* Reached: the 181st call has been made and the predator is dead.
C10_Witness == llamadas = 181 /\ ~depredador.vivo /\ ociosas = 0

---------------------------------------------------------------------------
(* C11: a run in which no draw comes out true.                             *)

\* Simulacion::new gives the rabbits the ids below N_CONEJOS_INICIAL and the
\* goats the ids after them.
especie_inicial(id) == IF id < N_CONEJOS_INICIAL THEN "Conejo" ELSE "Cabra"

C11_Dias == dia - inicio.dia

\* min(max age, slaughter age) of the species of the initial prey id.
C11_Umbral(id) ==
  LET s == IF especie_inicial(id) = "Conejo" THEN CONEJO_EDAD_SACRIFICIO_DIAS
           ELSE CABRA_EDAD_SACRIFICIO_DIAS
      m == IF especie_inicial(id) = "Conejo" THEN CONEJO_EDAD_MAXIMA_DIAS
           ELSE CABRA_EDAD_MAXIMA_DIAS
  IN  IF s < m THEN s ELSE m

C11_SinSorteos == azar.enfermas = 0 /\ azar.partos = 0

\* The population is the initial one, each aged by the days run, and the
\* reserve has paid the optimum every day it could.
C11_MismaPoblacion ==
  /\ Len(presas) = Len(emitidos)
  /\ \A i \in 1..Len(presas) :
       /\ presas[i].id = emitidos[i]
       /\ presas[i].especie = especie_inicial(emitidos[i])
       /\ presas[i].edad_dias = inicio.dia + C11_Dias
       /\ presas[i].vivo
  /\ (inicio.reserva >= DEPREDADOR_CONSUMO_OPTIMO_DIARIO_KG * C11_Dias
        => depredador.reserva_comida_kg =
             inicio.reserva - DEPREDADOR_CONSUMO_OPTIMO_DIARIO_KG * C11_Dias)

\* C11 as stated: with no draw coming out true, N prey all below their
\* slaughter age, advanced D days with D < min(max age, slaughter age),
\* end as the same N prey, each aged by D, and the reserve is the initial one
\* minus 5.0 * D.
C11_SinAzarLiteral ==
  (/\ op \in {"new", "avanzar_dia"}
   /\ C11_SinSorteos
   /\ \A k \in 1..Len(emitidos) :
        /\ inicio.dia < C11_Umbral(emitidos[k])
        /\ C11_Dias < C11_Umbral(emitidos[k]))
  => C11_MismaPoblacion

\* Every prey present before and after a step keeps its species and sex.
C11_MismaIdentidad ==
  \A i \in 1..Len(presas) : \A j \in 1..Len(presas') :
    presas[i].id = presas'[j].id
      => /\ presas'[j].especie = presas[i].especie
         /\ presas'[j].sexo = presas[i].sexo

C11_SinAzarEstado ==
  (/\ op \in {"new", "avanzar_dia"}
   /\ C11_SinSorteos
   /\ \A k \in 1..Len(emitidos) :
        inicio.dia + C11_Dias <= C11_Umbral(emitidos[k]))
  => C11_MismaPoblacion

\* C11 amended: with no draw coming out true, N prey of age a advanced D
\* days with a + D <= min(max age, slaughter age), so that each is below its
\* slaughter age at every hunt, end as the same N prey (ids, species, sex),
\* each aged by D, and the reserve is the initial one minus 5.0 * D while
\* that is not negative.
C11_SinAzar == []C11_SinAzarEstado /\ [][C11_MismaIdentidad]_vars

C11_Witness ==
  /\ C11_SinSorteos
  /\ C11_Dias = 2
  /\ Len(presas) = 2
  /\ \A k \in 1..Len(emitidos) :
       inicio.dia + C11_Dias <= C11_Umbral(emitidos[k])
  /\ depredador.reserva_comida_kg =
       inicio.reserva - 2 * DEPREDADOR_CONSUMO_OPTIMO_DIARIO_KG

---------------------------------------------------------------------------
(* C12: the world after the extinction of the prey.                        *)

C12_Paso ==
  (presas = <<>> /\ depredador.vivo)
    => /\ dia' = dia + 1
       /\ depredador' = consumir_reserva(depredador)
       /\ presas' = <<>>

\* C12: the extinction of the prey does not halt the run: with no prey and
\* a living predator every call of avanzar_dia adds one to dia and runs
\* consumir_reserva, the population stays empty, and after finitely many
\* calls the predator is dead.
C12_ExtincionNoDetiene ==
  /\ [][C12_Paso]_vars
  /\ [](presas = <<>>)
  /\ ((presas = <<>> /\ depredador.vivo) ~> ~depredador.vivo)

C12_Witness ==
  /\ presas = <<>>
  /\ ~depredador.vivo
  /\ depredador.reserva_comida_kg = 0
  /\ dia - inicio.dia = 180

---------------------------------------------------------------------------
(* C13: construction of the predator.                                      *)

\* C13: construction with a negative initial reserve fails: Depredador::new
\* never yields a predator whose reserve is below 0.
C13_ReservaInicialNoNegativa ==
  op = "Depredador_new" => depredador.reserva_comida_kg >= 0

---------------------------------------------------------------------------
(* C14: the growth curve.                                                  *)

C14_PesoAcotado ==
  \A i \in 1..Len(presas) :
    /\ presas[i].peso_kg > 0
    /\ presas[i].peso_kg <= (IF presas[i].especie = "Conejo"
                              THEN CONEJO_PESO_MAX ELSE CABRA_PESO_MAX)

C14_Paso ==
  \A i \in 1..Len(presas) : presas'[i].peso_kg >= presas[i].peso_kg

\* C14: the weight a prey is given at age t never decreases as t grows by
\* a day, never exceeds the species' maximum weight (5.0 kg, 75.0 kg) and
\* is above 0 from age 0 on.
C14_Gompertz == []C14_PesoAcotado /\ [][C14_Paso]_vars

C14_Witness ==
  /\ op = "envejecer"
  /\ presas[1].especie = "Conejo"
  /\ presas[1].edad_dias = 2
  /\ presas[1].peso_kg = crecimiento_conejo(2)
  /\ crecimiento_conejo(0) > 0
  /\ crecimiento_conejo(90) < crecimiento_conejo(91)

---------------------------------------------------------------------------
(* C15: ages and days.                                                     *)

\* C15: every prey is aged once per day run and not on the day of its
\* birth: its age is the current day minus the day it entered the
\* population (day 0 for the initial population), and every prey born on
\* the current day is in the population with age 0.
C15_EdadPorDia ==
  /\ \A i \in 1..Len(presas) :
       \E k \in 1..Len(emitidos) :
         /\ emitidos[k] = presas[i].id
         /\ presas[i].edad_dias = dia - nacimientos[k]
  /\ \A k \in 1..Len(emitidos) :
       nacimientos[k] = dia
         => \E i \in 1..Len(presas) :
              /\ presas[i].id = emitidos[k]
              /\ presas[i].edad_dias = 0

\* A newborn a day after its birth, next to a prey of the initial
\* population.
C15_Witness ==
  /\ dia = inicio.dia + 2
  /\ \E i, j \in 1..Len(presas) :
       /\ presas[i].id >= N_CONEJOS_INICIAL + N_CABRAS_INICIAL
       /\ presas[i].edad_dias = 1
       /\ presas[j].id < N_CONEJOS_INICIAL + N_CABRAS_INICIAL
       /\ presas[j].edad_dias = dia

---------------------------------------------------------------------------
(* C16: consumption, then at most one hunt.                                *)

\* Prey of the population before the step that the step's hunt removed:
\* those no longer present, less those the step's retain dropped.
C16_Cazadas ==
  Cardinality({i \in 1..Len(presas) :
                 \A j \in 1..Len(presas') : presas'[j].id # presas[i].id})
    - bajas'

C16_Paso ==
  (op' = "avanzar_dia" /\ depredador.vivo)
    => /\ C16_Cazadas \in {0, 1}
       /\ depredador.reserva_comida_kg < DEPREDADOR_CONSUMO_MINIMO_DIARIO_KG
            => /\ ~depredador'.vivo
               /\ depredador'.reserva_comida_kg = depredador.reserva_comida_kg
               /\ C16_Cazadas = 0
       /\ depredador'.reserva_comida_kg
            >= consumir_reserva(depredador).reserva_comida_kg
       /\ (depredador'.reserva_comida_kg
             = consumir_reserva(depredador).reserva_comida_kg)
            <=> C16_Cazadas = 0

\* C16: consumption comes before the hunt and there is at most one hunt a
\* day: a predator that starts a day with less than 3.0 kg dies that day
\* and culls nothing, whatever prey could be hunted, and on any day the
\* population loses at most one prey to the predator, whose weight is
\* added to the reserve left by the day's consumption.
C16_ConsumoAntesDeCaza == [][C16_Paso]_vars

\* The predator has starved on a day that began with a prey of slaughter
\* age, which is still there.
C16_Witness ==
  /\ op = "avanzar_dia"
  /\ ~depredador.vivo
  /\ ociosas = 0
  /\ \E i \in 1..Len(presas) :
       /\ presas[i].vivo
       /\ presas[i].edad_dias - 1 >= edad_sacrificio(presas[i])

---------------------------------------------------------------------------
(* C17: a call runs the whole day or nothing.                              *)

C17_Paso ==
  op' = "avanzar_dia"
    => IF depredador.vivo
       THEN /\ dia' = dia + 1
            /\ \A i \in 1..Len(presas) : \A j \in 1..Len(presas') :
                 presas'[j].id = presas[i].id
                   => presas'[j].edad_dias = presas[i].edad_dias + 1
            /\ \A k \in (Len(emitidos) + 1)..Len(emitidos') :
                 \E j \in 1..Len(presas') : presas'[j].id = emitidos'[k]
            /\ \A j \in 1..Len(presas') : presas'[j].vivo
            /\ Len(presas') <= Len(presas) + (Len(emitidos') - Len(emitidos))
            /\ Len(presas') >= Len(presas) + (Len(emitidos') - Len(emitidos))
                                - bajas' - 1
       ELSE UNCHANGED <<dia, presas, depredador, next_id>>

C17_Dias == dia - inicio.dia = llamadas - ociosas

\* C17: a call of avanzar_dia changes nothing when the predator is dead;
\* made on a living predator it adds exactly 1 to dia and ages the prey,
\* appends the newborns and drops the dead, also when the predator starves
\* in that call; dia counts the calls made on a living predator.
C17_DiaCompleto == []C17_Dias /\ [][C17_Paso]_vars

\* The call in which the predator starved has aged the prey.
C17_Witness ==
  /\ op = "avanzar_dia"
  /\ ~depredador.vivo
  /\ ociosas = 0
  /\ llamadas = 2
  /\ dia = inicio.dia + 2
  /\ presas # <<>>
  /\ \A i \in 1..Len(presas) : presas[i].edad_dias = dia

---------------------------------------------------------------------------
(* C18: the hunt sees the population of the end of the previous day.       *)

\* What the day's hunt added to the reserve consumir_reserva left.
C18_Ganancia ==
  depredador'.reserva_comida_kg
    - consumir_reserva(depredador).reserva_comida_kg

C18_Paso ==
  (op' = "avanzar_dia" /\ depredador.vivo)
    => /\ C18_Ganancia > 0
            => \E i \in 1..Len(presas) :
                 /\ EsCazable(presas, i)
                 /\ presas[i].peso_kg = C18_Ganancia
                 /\ \A j \in 1..Len(presas') : presas'[j].id # presas[i].id
       /\ (/\ consumir_reserva(depredador).vivo
           /\ \E i \in 1..Len(presas) : EsCazable(presas, i))
            => C18_Ganancia > 0
       /\ \A k \in (Len(emitidos) + 1)..Len(emitidos') :
            \E j \in 1..Len(presas') : presas'[j].id = emitidos'[k]

\* C18: the day's hunt works on the population as the previous day left
\* it: the prey culled is of slaughter age by the age it had before the
\* day's aging and the reserve gains the weight it had then; a prey of
\* slaughter age is culled whenever the predator survives the consumption,
\* even if the day's aging would kill it; every prey born in the day is in
\* the population at the end of the day.
C18_CazaAntesDeEnvejecer == [][C18_Paso]_vars

\* A rabbit of the maximum age, which the day's aging would have killed,
\* has been culled: the reserve holds its weight and retain dropped nobody.
C18_Witness ==
  /\ op = "avanzar_dia"
  /\ llamadas = 1
  /\ dia = CONEJO_EDAD_MAXIMA_DIAS + 1
  /\ Len(emitidos) = 1
  /\ emitidos[1] < N_CONEJOS_INICIAL
  /\ presas = <<>>
  /\ bajas = 0
  /\ depredador.reserva_comida_kg =
       inicio.reserva - DEPREDADOR_CONSUMO_OPTIMO_DIARIO_KG
         + crecimiento_conejo(CONEJO_EDAD_MAXIMA_DIAS)

---------------------------------------------------------------------------
(* C19: death of old age.                                                  *)

C19_EdadMaxima(p) ==
  IF p.especie = "Conejo" THEN CONEJO_EDAD_MAXIMA_DIAS
  ELSE CABRA_EDAD_MAXIMA_DIAS

C19_EdadAcotada ==
  \A i \in 1..Len(presas) :
    presas[i].edad_dias <= C19_EdadMaxima(presas[i])

\* The prey of the population before the step that are not in the one
\* after it.
C19_Ausentes ==
  {i \in 1..Len(presas) :
     \A j \in 1..Len(presas') : presas'[j].id # presas[i].id}

C19_Paso ==
  (op' = "avanzar_dia" /\ depredador.vivo)
    => /\ \A i \in 1..Len(presas) :
            presas[i].edad_dias + 1 > C19_EdadMaxima(presas[i])
              => i \in C19_Ausentes
       /\ azar'.enfermas = azar.enfermas
            => LET perdidas ==
                     {i \in C19_Ausentes :
                        presas[i].edad_dias + 1 <= C19_EdadMaxima(presas[i])}
               IN  /\ Cardinality(perdidas) <= 1
                   /\ perdidas # {}
                        => /\ bajas' = Cardinality(C19_Ausentes) - 1
                           /\ depredador'.reserva_comida_kg >
                                consumir_reserva(depredador).reserva_comida_kg

\* C19: death of old age is strict: a day's aging removes every prey whose
\* new age is above its species' maximum (1825, 5475) and, when no disease
\* draw comes out true, no prey whose new age is at most the maximum (the
\* only such prey a day can lose is the one the hunt took); after every
\* call no rabbit is older than 1825 days and no goat older than 5475.
C19_VejezEstricta == []C19_EdadAcotada /\ [][C19_Paso]_vars

\* A prey has reached exactly its maximum age in a call and is alive.
C19_Witness ==
  /\ op = "avanzar_dia"
  /\ azar.enfermas = 0
  /\ \E i \in 1..Len(presas) :
       /\ presas[i].especie = "Conejo"
       /\ presas[i].edad_dias = CONEJO_EDAD_MAXIMA_DIAS
       /\ presas[i].vivo

---------------------------------------------------------------------------
(* C20: reproducirse.                                                      *)

C20_Paso ==
  op' = "reproducirse"
    => LET n == Len(presas') - Len(presas)
       IN  /\ n >= 0
           /\ \A i \in 1..Len(presas) : presas'[i] = presas[i]
           /\ next_id' = next_id + n
           /\ \A k \in 1..n :
                /\ presas'[Len(presas) + k].id = next_id + k - 1
                /\ presas'[Len(presas) + k].edad_dias = 0
                /\ presas'[Len(presas) + k].vivo
                /\ presas'[Len(presas) + k].sexo \in Sexo
           /\ n > 0
                => \E i \in 1..Len(presas) :
                     /\ presas[i].sexo = "Hembra"
                     /\ \A k \in 1..n :
                          presas'[Len(presas) + k].especie = presas[i].especie
                     /\ IF presas[i].especie = "Conejo"
                        THEN presas[i].edad_dias >= 100 /\ n \in 3..6
                        ELSE presas[i].edad_dias >= 300 /\ n \in 1..2

\* C20: reproducirse returns newborns only for a female of at least the
\* reproductive age of her species (100 for Conejo, 300 for Cabra), between
\* 3 and 6 of them for a rabbit and 1 or 2 for a goat; the newborns are of
\* her species, of age 0 and alive; her own fields do not change, and
\* next_id advances by the number of newborns, which take the ids from the
\* old next_id on.
C20_Reproducirse == [][C20_Paso]_vars

\* A rabbit of exactly the reproductive age has had a litter of 6.
C20_Witness ==
  /\ op = "reproducirse"
  /\ Len(presas) = 7
  /\ presas[1].especie = "Conejo"
  /\ presas[1].sexo = "Hembra"
  /\ presas[1].edad_dias = 100
  /\ next_id = 91
  /\ \A k \in 2..7 : presas[k].especie = "Conejo" /\ presas[k].id = 83 + k

---------------------------------------------------------------------------
(* C21: reproduction and the alive flag.                                   *)

C21_Paso ==
  (op' = "avanzar_dia" /\ depredador.vivo)
    => /\ azar'.partos > azar.partos
            => Len(emitidos') - Len(emitidos) >= azar'.partos - azar.partos
       /\ \A k \in (Len(emitidos) + 1)..Len(emitidos') :
            /\ emitidos'[k] >= next_id
            /\ emitidos'[k] < next_id'
            /\ \E j \in 1..Len(presas') :
                 /\ presas'[j].id = emitidos'[k]
                 /\ presas'[j].edad_dias = 0
                 /\ presas'[j].vivo

\* C21: reproducirse does not look at vivo: in avanzar_dia every
\* reproduction draw that comes out true yields a litter, also for a mother
\* the same day's aging has just killed, and the litter, with fresh ids,
\* is in the population at the end of the day although retain has dropped
\* the mother.
C21_PartoSinVida == [][C21_Paso]_vars

\* The only prey of the run, a rabbit that turned 100 and fell ill on the
\* same day, is gone and her litter of that day is the population.
C21_Witness ==
  /\ op = "avanzar_dia"
  /\ llamadas = 1
  /\ dia = CONEJO_EDAD_REPRODUCTIVA_DIAS
  /\ azar = [enfermas |-> 1, partos |-> 1]
  /\ bajas = 1
  /\ Len(emitidos) = 1 + Len(presas)
  /\ emitidos[1] < N_CONEJOS_INICIAL
  /\ Len(presas) >= CONEJO_CRIAS_POR_PARTO[1]
  /\ \A i \in 1..Len(presas) :
       /\ presas[i].id = emitidos[i + 1]
       /\ presas[i].id >= N_CONEJOS_INICIAL + N_CABRAS_INICIAL
       /\ presas[i].especie = "Conejo"
       /\ presas[i].edad_dias = 0

====
